---------------------------- MODULE Spec2Model ----------------------------
(***************************************************************************)
(* A model of the AEI tag pipeline of davidus-sk/aei_standalone:           *)
(*   bin/read_tags.py             the Reader: serial session, frame         *)
(*                                extraction, 6-bit unpacking, field        *)
(*                                decode, dedup, audit log, queue files     *)
(*   bin/monitor_tag_directory.py the Aggregator/Notifier: poll of the      *)
(*                                queue directory, age test, report,        *)
(*                                delivery with retries                     *)
(* The two run as separate processes that share only the queue directory    *)
(* (/dev/shm/*.tag) and the wall clock.                                     *)
(***************************************************************************)
EXTENDS Integers, Sequences, FiniteSets, TLC

\* ------------------------------------------------------------------------
\* Bounds of the exploration (not program constants)
\* ------------------------------------------------------------------------
MaxReads == 2
MaxPolls == 1
MaxTime == 420
TickStep == 301
ReadTime == 1
MaxCodecLen == 4
MaxFieldLen == 6
MaxBits == 4
MaxPieces == 6

\* ------------------------------------------------------------------------
\* Program constants
\* ------------------------------------------------------------------------
AGE_THRESHOLD == 300
POLL_INTERVAL_SECONDS == 5
MAX_ATTEMPTS == 5
BACKOFF_UNIT == 10

\* ------------------------------------------------------------------------
\* Arithmetic helpers standing for Python's integer bit operators
\* ------------------------------------------------------------------------
RECURSIVE Pow2(_)
Pow2(n) == IF n = 0 THEN 1 ELSE 2 * Pow2(n - 1)

\* x >> n
Shr(x, n) == x \div Pow2(n)

\* Variant of Shl: the buffer is shifted by a whole byte, not by n bits.
Shl_byte(x, n) == x * Pow2(8)

\* x << n
Shl(x, n) == x * Pow2(n)

\* Variant of LowBits: the mask is forgotten.
LowBits_unmasked(x, n) == x

\* x & ((1 << n) - 1)
LowBits(x, n) == x % Pow2(n)

\* ------------------------------------------------------------------------
\* read_tags.py: unpack_6bit_to_8bit
\* ------------------------------------------------------------------------
\* The inner `while buffer_length >= 8` loop; st = [buf, len, out].
RECURSIVE unpack_drain(_)
unpack_drain(st) ==
    IF st.len >= 8
    THEN LET shift_amount == st.len - 8
             new_byte == LowBits(Shr(st.buf, shift_amount), 8)
         IN unpack_drain([buf |-> LowBits(st.buf, shift_amount),
                          len |-> st.len - 8,
                          out |-> Append(st.out, new_byte)])
    ELSE st

\* The `for byte in input_bytes` loop from index k on.
RECURSIVE unpack_loop(_, _, _)
unpack_loop(input_bytes, k, st) ==
    IF k > Len(input_bytes)
    THEN st.out
    ELSE LET six_bits == LowBits(input_bytes[k], 6)
         IN unpack_loop(input_bytes, k + 1,
                        unpack_drain([buf |-> Shl(st.buf, 6) + six_bits,
                                      len |-> st.len + 6,
                                      out |-> st.out]))

unpack_6bit_to_8bit(input_bytes) ==
    unpack_loop(input_bytes, 1, [buf |-> 0, len |-> 0, out |-> <<>>])

\* ------------------------------------------------------------------------
\* read_tags.py: process_bytes (the other 6-bit unpacker of the file; the
\* read loop calls unpack_6bit_to_8bit)
\* ------------------------------------------------------------------------
\* The inner `while bits_in_buffer >= 8` loop; st = [buf, len, out].  The
\* buffer is not cut down after a byte is taken out.
RECURSIVE process_drain(_)
process_drain(st) ==
    IF st.len >= 8
    THEN LET bits_in_buffer == st.len - 8
             output_byte == LowBits(Shr(st.buf, bits_in_buffer), 8)
         IN process_drain([buf |-> st.buf,
                           len |-> bits_in_buffer,
                           out |-> Append(st.out, output_byte)])
    ELSE st

RECURSIVE process_loop(_, _, _)
process_loop(input_bytes, k, st) ==
    IF k > Len(input_bytes)
    THEN st.out
    ELSE LET byte == LowBits(input_bytes[k], 6)
         IN process_loop(input_bytes, k + 1,
                         process_drain([buf |-> Shl(st.buf, 6) + byte,
                                        len |-> st.len + 6,
                                        out |-> st.out]))

process_bytes(input_bytes) ==
    process_loop(input_bytes, 1, [buf |-> 0, len |-> 0, out |-> <<>>])

\* ------------------------------------------------------------------------
\* read_tags.py: bit array, bits_to_int, car_number, car_owner
\* ------------------------------------------------------------------------
\* The list of booleans built at the start of car_number and car_owner:
\* element 8*(b-1)+j (1-based) is bit 8-j of byte b, MSB first.
to_bit_array(input_bytes) ==
    [p \in 1..(8 * Len(input_bytes)) |->
        LET b == input_bytes[((p - 1) \div 8) + 1]
            i == 7 - ((p - 1) % 8)
        IN (Shr(b, i) % 2) = 1]

\* Variant of bits_sum: the bits are weighted least significant first.
RECURSIVE bits_sum_lsb_first(_, _, _, _)
bits_sum_lsb_first(bit_array, start_bit, slice_len, i) ==
    IF i >= slice_len
    THEN 0
    ELSE (IF bit_array[start_bit + i + 1] THEN Pow2(i) ELSE 0)
         + bits_sum_lsb_first(bit_array, start_bit, slice_len, i + 1)

RECURSIVE bits_sum(_, _, _, _)
bits_sum(bit_array, start_bit, slice_len, i) ==
    IF i >= slice_len
    THEN 0
    ELSE (IF bit_array[start_bit + i + 1] THEN Pow2(slice_len - 1 - i) ELSE 0)
         + bits_sum(bit_array, start_bit, slice_len, i + 1)

\* start_bit inclusive, end_bit exclusive, both 0-based as in the source.
bits_to_int(bit_array, start_bit, end_bit) ==
    IF start_bit >= end_bit \/ end_bit > Len(bit_array)
    THEN 0
    ELSE bits_sum(bit_array, start_bit, end_bit - start_bit, 0)

\* The indices (0-based) of bit_array that bits_to_int reads: none when it
\* returns early, else start_bit + i for i in range(slice_len).
bits_read(bit_array, start_bit, end_bit) ==
    IF start_bit >= end_bit \/ end_bit > Len(bit_array)
    THEN {}
    ELSE {start_bit + i : i \in 0..(end_bit - start_bit - 1)}

\* Variant of car_number: the inclusive end index is taken one bit too far.
car_number_wide(input_bytes) ==
    LET start_index == 26
        end_index == 46
    IN bits_to_int(to_bit_array(input_bytes), start_index, end_index + 1)

car_number(input_bytes) ==
    LET start_index == 26
        end_index == 45
    IN bits_to_int(to_bit_array(input_bytes), start_index, end_index + 1)

Alphabet == <<"A", "B", "C", "D", "E", "F", "G", "H", "I", "J", "K", "L", "M",
              "N", "O", "P", "Q", "R", "S", "T", "U", "V", "W", "X", "Y", "Z">>

decode_c1(n1) == IF 0 <= n1 /\ n1 <= 25 THEN Alphabet[n1 + 1] ELSE "?"

decode_c2_c4(n) ==
    IF n = 0 THEN " "
    ELSE IF 1 <= n /\ n <= 26 THEN Alphabet[n] ELSE "?"

owner_value(input_bytes) ==
    LET start_index == 7
        end_index == 25
    IN bits_to_int(to_bit_array(input_bytes), start_index, end_index + 1)

\* Variant of owner_digits: the second digit is divided out with 27 * 26.
owner_digits_skewed(value) ==
    LET POW_27_3 == 27 * 27 * 27
        POW_27_2 == 27 * 26
        POW_27_1 == 27
        n1 == value \div POW_27_3
        remainder_n1 == value - (n1 * POW_27_3)
        n2 == remainder_n1 \div POW_27_2
        remainder_n2 == remainder_n1 - (n2 * POW_27_2)
        n3 == remainder_n2 \div POW_27_1
        remainder_n3 == remainder_n2 - (n3 * POW_27_1)
        n4 == remainder_n3
    IN <<n1, n2, n3, n4>>

\* The mixed base-27 digits (n1, n2, n3, n4) of car_owner.
owner_digits(value) ==
    LET POW_27_3 == 27 * 27 * 27
        POW_27_2 == 27 * 27
        POW_27_1 == 27
        n1 == value \div POW_27_3
        remainder_n1 == value - (n1 * POW_27_3)
        n2 == remainder_n1 \div POW_27_2
        remainder_n2 == remainder_n1 - (n2 * POW_27_2)
        n3 == remainder_n2 \div POW_27_1
        remainder_n3 == remainder_n2 - (n3 * POW_27_1)
        n4 == remainder_n3
    IN <<n1, n2, n3, n4>>

\* The four characters of the owner mark, as a sequence of 1-character strings.
car_owner(input_bytes) ==
    LET d == owner_digits(owner_value(input_bytes))
    IN <<decode_c1(d[1]), decode_c2_c4(d[2]), decode_c2_c4(d[3]), decode_c2_c4(d[4])>>

\* ------------------------------------------------------------------------
\* read_tags.py: the frame pattern  b'\xfa\x00\x07(.*?)\xf5'  and findall
\* ------------------------------------------------------------------------
START_MARKER == <<250, 0, 7>>
END_MARKER == 245

\* Variant of find_end: the group is greedy, the last end marker is taken.
RECURSIVE find_end_greedy(_, _)
find_end_greedy(buf, from) ==
    IF from > Len(buf) THEN 0
    ELSE LET later == find_end_greedy(buf, from + 1)
         IN IF later # 0 THEN later
            ELSE IF buf[from] = END_MARKER THEN from ELSE 0

\* Least index e >= from with buf[e] = END_MARKER, or 0 when there is none.
RECURSIVE find_end(_, _)
find_end(buf, from) ==
    IF from > Len(buf) THEN 0
    ELSE IF buf[from] = END_MARKER THEN from
    ELSE find_end(buf, from + 1)

\* pattern.findall: leftmost matches, non-greedy group, scan resumes after
\* the end marker of a match.
RECURSIVE findall(_, _)
findall(buf, pos) ==
    IF pos + 3 > Len(buf)
    THEN <<>>
    ELSE IF SubSeq(buf, pos, pos + 2) = START_MARKER
         THEN LET e == find_end(buf, pos + 3)
              IN IF e = 0
                 THEN findall(buf, pos + 1)
                 ELSE <<SubSeq(buf, pos + 3, e - 1)>> \o findall(buf, e + 1)
         ELSE findall(buf, pos + 1)

\* current_tag = f"{owner} {number}", as a sequence of string pieces.
format_tag(raw_packet) ==
    LET unpacked == unpack_6bit_to_8bit(raw_packet)
        owner == car_owner(unpacked)
        number == car_number(unpacked)
    IN owner \o <<" ", ToString(number)>>

\* ------------------------------------------------------------------------
\* Inputs: what the device can put on the serial line
\* ------------------------------------------------------------------------
PAYLOAD_A == <<0, 0, 6, 1, 48, 0, 0, 20>>
PAYLOAD_B == <<0, 1, 18, 58, 32, 0, 0, 28>>
PAYLOAD_SHORT == <<1, 2, 3>>

Frame(payload) == START_MARKER \o payload \o <<END_MARKER>>

LINE_END == <<13, 10>>

\* The results port.readline() is given in the read loop when the Reader is
\* studied alone: a timeout (no byte), one frame, two frames coalesced in one
\* read (equal, different), a frame too short for the bit ranges.
RawReads ==
    { <<>>,
      Frame(PAYLOAD_A) \o LINE_END,
      Frame(PAYLOAD_A) \o Frame(PAYLOAD_A) \o LINE_END,
      Frame(PAYLOAD_A) \o Frame(PAYLOAD_B) \o LINE_END,
      Frame(PAYLOAD_SHORT) \o LINE_END }

\* The same when the Reader runs beside the Aggregator: a timeout or one
\* frame, of one tag or the other.
QueueReads ==
    { <<>>,
      Frame(PAYLOAD_A) \o LINE_END,
      Frame(PAYLOAD_B) \o LINE_END }

\* The results port.read_all() is given after the status query: nothing, a
\* truncated response, a whole response (RF on, frequency 3, power 100).
StatusResponses ==
    { <<>>,
      <<250, 0, 6>>,
      <<250, 0, 6, 0, 67, 0, 100, 245>> }

\* ------------------------------------------------------------------------
\* State
\* ------------------------------------------------------------------------
VARIABLES
    now,          \* the wall clock, in seconds
    \* --- Reader (read_tags.py) ---
    rpc,          \* position of the Reader
    cfg_step,     \* command frames of the configuration sequence sent so far
    is_open,      \* port.is_open
    last_tag,     \* last_tag
    last_read,    \* last_read
    matches,      \* matches of the current read
    idx,          \* i of `for i, raw_packet in enumerate(matches)`
    exc,          \* the uncaught exception that ended the Reader, or ""
    reads,        \* port.readline() calls made
    audit,        \* lines of /tmp/tags.log
    \* --- the queue directory /dev/shm/*.tag ---
    queue,        \* set of files [name, ctime, content]
    \* --- Aggregator/Notifier (monitor_tag_directory.py) ---
    apc,          \* position of the Aggregator
    tag_files,    \* tag_files of the current poll
    ages,         \* time.time() - creation_timestamp of each listed file
    emit,         \* emit
    fidx,         \* index of the next file of the compose loop (1-based)
    body,         \* rows of the report being composed
    attempt,      \* i of `for i in range(5)`
    sent,         \* sent
    polls,        \* polls made
    \* --- history, for stating the properties ---
    seen,         \* decoded tags in the order the Reader handled them
    created,      \* queue entries created, in order: [name, tag]
    last_io,      \* how the Reader's latest serial operation ended
    wire,         \* the Reader's serial calls, in order
    outcomes,     \* results of the delivery attempts of the current cycle
    io_failed,    \* <<file, fault>> for each file fault of the current cycle
    delivered,    \* names of the entries listed in a delivered report
    \* --- the decoding functions applied on their own ---
    op,           \* the function applied, or "none"
    arg,          \* its arguments
    res,          \* its result
    done          \* whether it has returned

rvars == <<rpc, cfg_step, is_open, last_tag, last_read, matches, idx, exc,
           reads, audit, seen, created, last_io, wire>>
avars == <<apc, tag_files, ages, emit, fidx, body, attempt, sent, polls,
           outcomes, io_failed, delivered>>
pvars == <<op, arg, res, done>>
vars == <<now, queue, rvars, avars, pvars>>

\* ------------------------------------------------------------------------
\* Reader: helpers
\* ------------------------------------------------------------------------
\* Variant of uncaught: the exception is swallowed and the loop reads on.
uncaught_resume(e) == [pc |-> "listen", exc |-> ""]

\* An exception no handler catches ends the script: the read loop and the
\* configuration sequence run at module level with no try around them.
uncaught(e) == [pc |-> "dead", exc |-> e]

\* send_binary_to_serial: the write is attempted only on an open port, and
\* whatever it raises is caught and logged; the caller goes on either way.
\* Returns whether an error was raised (and swallowed).
send_binary_to_serial(open, outcome) ==
    IF open THEN outcome = "SerialException" ELSE FALSE

\* get_reader_status after read_all: b1 = received_data[4] and
\* b2 = received_data[6] (0-based) raise IndexError on a short response.
status_fields(received_data) ==
    IF Len(received_data) > 0
    THEN IF Len(received_data) < 7
         THEN [raised |-> "IndexError"]
         ELSE LET b1 == received_data[5]
                  b2 == received_data[7]
              IN [raised |-> "", status |-> Shr(b1, 6) % 2,
                  frequency |-> b1 % 4, power |-> b2]
    ELSE [raised |-> ""]

\* Variant of tag_changed: the comparison is lost, every tag is stored.
tag_changed_always(last, current) == TRUE

\* if last_tag != current_tag
tag_changed(last, current) == last # current

\* The file name f"/dev/shm/{last_read}-{i}.tag"
tag_path(t, i) == <<t, i>>

\* Variant of audit_logged: the write stands inside `if last_tag != current_tag`.
audit_only_changes(last, current) == last # current

\* Which decoded tags get a line in /tmp/tags.log: the write stands before
\* the comparison with last_tag, so every one does.
audit_logged(last, current) == TRUE

FileNames(q) == {f.name : f \in q}

FileOf(q, n) == CHOOSE f \in q : f.name = n

\* open(path, 'w'): creates the file, or truncates an existing one.
open_w(q, n, t) ==
    {f \in q : f.name # n} \cup {[name |-> n, ctime |-> t, content |-> <<>>]}

\* file.write(...) and the close at the end of the with block: the content
\* reaches the file if it is still linked; an unlinked file takes it along.
write_close(q, n, t, text) ==
    IF n \in FileNames(q)
    THEN {f \in q : f.name # n} \cup {[name |-> n, ctime |-> t, content |-> text]}
    ELSE q

\* Position after the body of the for loop for frame i (0-based).
next_frame(i, ms) == IF i + 1 < Len(ms) THEN "tag" ELSE "listen"

\* Variant of got_read: the test is lost, every read goes on to the status
\* query.
got_read_never(received_data) == FALSE

\* if len(received_data) > 0
got_read(received_data) == Len(received_data) > 0

\* Variant of CommandFrames: RF is turned on before the power is set.
CommandFrames_rf_on_early == <<"rf_off", "mode_serial", "rf_on", "power_100">>

CommandFrames == <<"rf_off", "mode_serial", "power_100", "rf_on">>

WriteOutcomes == {"ok", "SerialException"}

\* ------------------------------------------------------------------------
\* Reader: actions
\* ------------------------------------------------------------------------
\* Configuration: send_binary_to_serial(command frame cfg_step + 1)
CfgSend ==
    /\ rpc = "cfg_send"
    /\ \E outcome \in WriteOutcomes :
         last_io' = IF send_binary_to_serial(is_open, outcome)
                    THEN "write_error" ELSE "ok"
    /\ rpc' = "cfg_drain"
    /\ wire' = Append(wire, CommandFrames[cfg_step + 1])
    /\ UNCHANGED <<pvars, now, queue, avars, cfg_step, is_open, last_tag, last_read,
                   matches, idx, exc, reads, audit, seen, created>>

\* Configuration: received_data = port.read_all(), logged and ignored
CfgDrain ==
    /\ rpc = "cfg_drain"
    /\ wire' = Append(wire, "read_all")
    /\ \/ /\ \E received_data \in StatusResponses :
               /\ cfg_step' = cfg_step + 1
               /\ rpc' = IF cfg_step + 1 = Len(CommandFrames)
                         THEN "listen" ELSE "cfg_send"
          /\ last_io' = "ok"
          /\ UNCHANGED exc
       \/ /\ rpc' = uncaught("SerialException").pc
          /\ exc' = uncaught("SerialException").exc
          /\ last_io' = "read_error"
          /\ UNCHANGED cfg_step
    /\ UNCHANGED <<pvars, now, queue, avars, is_open, last_tag, last_read, matches,
                   idx, reads, audit, seen, created>>

\* received_data = port.readline() at the top of the read loop, the device
\* sending one of `inputs`
Listen(inputs) ==
    /\ rpc = "listen"
    /\ reads < MaxReads
    /\ now + ReadTime <= MaxTime
    /\ now' = now + ReadTime
    /\ reads' = reads + 1
    /\ \/ /\ \E received_data \in inputs :
               IF got_read(received_data)
               THEN /\ last_read' = now'
                    /\ matches' = findall(received_data, 1)
                    /\ idx' = 0
                    /\ rpc' = IF matches' = <<>> THEN "listen" ELSE "tag"
                    /\ wire' = Append(wire, "readline_data")
               ELSE /\ rpc' = "status_send"
                    /\ wire' = Append(wire, IF Len(received_data) > 0
                                            THEN "readline_data"
                                            ELSE "readline_empty")
                    /\ UNCHANGED <<last_read, matches, idx>>
          /\ last_io' = "ok"
          /\ UNCHANGED exc
       \/ /\ rpc' = uncaught("SerialException").pc
          /\ exc' = uncaught("SerialException").exc
          /\ last_io' = "read_error"
          /\ wire' = Append(wire, "readline_error")
          /\ UNCHANGED <<last_read, matches, idx>>
    /\ UNCHANGED <<pvars, queue, avars, cfg_step, is_open, last_tag, audit, seen,
                   created>>

\* The body of the for loop up to the comparison with last_tag: decode,
\* append to /tmp/tags.log, compare.
HandleTag ==
    /\ rpc = "tag"
    /\ LET raw_packet == matches[idx + 1]
           current_tag == format_tag(raw_packet)
       IN /\ seen' = Append(seen, current_tag)
          /\ \/ /\ audit' = IF audit_logged(last_tag, current_tag)
                            THEN Append(audit, <<last_read, current_tag>>)
                            ELSE audit
                /\ IF tag_changed(last_tag, current_tag)
                   THEN /\ last_tag' = current_tag
                        /\ rpc' = "open"
                        /\ UNCHANGED idx
                   ELSE /\ rpc' = next_frame(idx, matches)
                        /\ idx' = idx + 1
                        /\ UNCHANGED last_tag
                /\ UNCHANGED exc
             \/ \* open("/tmp/tags.log", 'a') raises
                /\ rpc' = uncaught("OSError_log").pc
                /\ exc' = uncaught("OSError_log").exc
                /\ UNCHANGED <<audit, last_tag, idx>>
    /\ UNCHANGED <<pvars, now, queue, avars, cfg_step, is_open, last_read, matches,
                   reads, created, last_io, wire>>

\* with open(f"/dev/shm/{last_read}-{i}.tag", 'w') as file
CreateOpen ==
    /\ rpc = "open"
    /\ \/ /\ queue' = open_w(queue, tag_path(last_read, idx), now)
          /\ created' = Append(created, [name |-> tag_path(last_read, idx),
                                         tag |-> last_tag])
          /\ rpc' = "write"
          /\ UNCHANGED exc
       \/ /\ rpc' = uncaught("OSError_tag").pc
          /\ exc' = uncaught("OSError_tag").exc
          /\ UNCHANGED <<queue, created>>
    /\ UNCHANGED <<pvars, now, avars, cfg_step, is_open, last_tag, last_read, matches,
                   idx, reads, audit, seen, last_io, wire>>

\* file.write(f"{current_tag}\n") and the end of the with block
CreateWrite ==
    /\ rpc = "write"
    /\ queue' = write_close(queue, tag_path(last_read, idx), now,
                            last_tag \o <<"\n">>)
    /\ rpc' = next_frame(idx, matches)
    /\ idx' = idx + 1
    /\ UNCHANGED <<pvars, now, avars, cfg_step, is_open, last_tag, last_read, matches,
                   exc, reads, audit, seen, created, last_io, wire>>

\* get_reader_status: send_binary_to_serial(status query)
StatusSend ==
    /\ rpc = "status_send"
    /\ \E outcome \in WriteOutcomes :
         last_io' = IF send_binary_to_serial(is_open, outcome)
                    THEN "write_error" ELSE "ok"
    /\ rpc' = "status_read"
    /\ wire' = Append(wire, "status")
    /\ UNCHANGED <<pvars, now, queue, avars, cfg_step, is_open, last_tag, last_read,
                   matches, idx, exc, reads, audit, seen, created>>

\* get_reader_status: received_data = port.read_all() and its parse
StatusRead ==
    /\ rpc = "status_read"
    /\ wire' = Append(wire, "read_all")
    /\ \/ /\ \E received_data \in StatusResponses :
               IF status_fields(received_data).raised = "IndexError"
               THEN /\ rpc' = uncaught("IndexError").pc
                    /\ exc' = uncaught("IndexError").exc
               ELSE /\ rpc' = "listen"
                    /\ UNCHANGED exc
          /\ last_io' = "ok"
       \/ /\ rpc' = uncaught("SerialException").pc
          /\ exc' = uncaught("SerialException").exc
          /\ last_io' = "read_error"
    /\ UNCHANGED <<pvars, now, queue, avars, cfg_step, is_open, last_tag, last_read,
                   matches, idx, reads, audit, seen, created>>

\* Every step of the Reader but the read itself
ReaderSteps ==
    \/ CfgSend
    \/ CfgDrain
    \/ HandleTag
    \/ CreateOpen
    \/ CreateWrite
    \/ StatusSend
    \/ StatusRead

\* ------------------------------------------------------------------------
\* Aggregator/Notifier: helpers
\* ------------------------------------------------------------------------
\* glob.glob returns the matching names in no particular order.
Listings(names) ==
    {l \in [1..Cardinality(names) -> names] :
        \A a, b \in 1..Cardinality(names) : l[a] = l[b] => a = b}

\* Variant of emit_loop: the comparison is turned around, aged files clear
\* emit and young ones set it.
RECURSIVE emit_loop_inverted(_, _, _)
emit_loop_inverted(file_ages, k, e) ==
    IF k > Len(file_ages)
    THEN e
    ELSE emit_loop_inverted(file_ages, k + 1,
                            IF file_ages[k] < AGE_THRESHOLD THEN TRUE ELSE FALSE)

\* The loop of lines 80-87 from file k on: emit is overwritten for each file,
\* so the value left is the one the last file gives.
RECURSIVE emit_loop(_, _, _)
emit_loop(file_ages, k, e) ==
    IF k > Len(file_ages)
    THEN e
    ELSE emit_loop(file_ages, k + 1,
                   IF file_ages[k] < AGE_THRESHOLD THEN FALSE ELSE TRUE)

Whitespace == {" ", "\n"}

\* str.strip() on the sequence of pieces
RECURSIVE strip(_)
strip(text) ==
    IF text = <<>> THEN text
    ELSE IF Head(text) \in Whitespace THEN strip(Tail(text))
    ELSE IF text[Len(text)] \in Whitespace
         THEN strip(SubSeq(text, 1, Len(text) - 1))
    ELSE text

FileOutcomes == {"ok", "read_error", "delete_error"}

\* Variant of process_tag_file: the removal takes every file of the
\* directory, not the one that was read.
process_tag_file_purge(q, filepath, outcome) ==
    IF outcome = "read_error"
    THEN [content |-> "None", q |-> q]
    ELSE [content |-> strip(FileOf(q, filepath).content),
          q |-> IF outcome = "delete_error" THEN q ELSE {}]

\* process_tag_file(filepath): [content, q], content "None" on a read error;
\* the file is removed unless the read or the removal fails.
process_tag_file(q, filepath, outcome) ==
    IF outcome = "read_error"
    THEN [content |-> "None", q |-> q]
    ELSE [content |-> strip(FileOf(q, filepath).content),
          q |-> IF outcome = "delete_error"
                THEN q
                ELSE {f \in q : f.name # filepath}]

\* time.sleep(10*i) after failed attempt i (0-based)
backoff(i) == BACKOFF_UNIT * i

\* Variant of loop_breaks: the break is lost, the loop runs all five passes.
loop_never_breaks(was_sent) == FALSE

\* if sent: break
loop_breaks(was_sent) == was_sent

\* Local variables of monitor_directory at the start of a pass of the loop.
AggFresh ==
    /\ tag_files' = <<>>
    /\ ages' = <<>>
    /\ emit' = FALSE
    /\ fidx' = 1
    /\ body' = <<>>
    /\ attempt' = 0
    /\ sent' = FALSE
    /\ outcomes' = <<>>
    /\ io_failed' = {}

\* ------------------------------------------------------------------------
\* Aggregator/Notifier: actions
\* ------------------------------------------------------------------------
\* tag_files = glob.glob(search_path)
Scan ==
    /\ apc = "scan"
    /\ polls < MaxPolls
    /\ polls' = polls + 1
    /\ \E l \in Listings(FileNames(queue)) : tag_files' = l
    /\ apc' = IF tag_files' = <<>> THEN "sleep" ELSE "age"
    /\ UNCHANGED <<pvars, now, queue, rvars, ages, emit, fidx, body, attempt, sent,
                   outcomes, io_failed, delivered>>

\* The age loop (lines 80-87) and `if emit`
AgeCheck ==
    /\ apc = "age"
    /\ ages' = [k \in 1..Len(tag_files) |->
                   now - FileOf(queue, tag_files[k]).ctime]
    /\ emit' = emit_loop(ages', 1, FALSE)
    /\ apc' = IF emit' THEN "compose" ELSE "sleep"
    /\ UNCHANGED <<pvars, now, queue, rvars, tag_files, fidx, body, attempt, sent,
                   polls, outcomes, io_failed, delivered>>

\* One pass of the compose loop (lines 107-120): getctime, process_tag_file,
\* one more row unless the content is None.
ProcessFile ==
    /\ apc = "compose"
    /\ LET file_path == tag_files[fidx]
           creation_timestamp == FileOf(queue, file_path).ctime
       IN \E outcome \in FileOutcomes :
            LET r == process_tag_file(queue, file_path, outcome)
            IN /\ queue' = r.q
               /\ body' = IF r.content # "None"
                          THEN Append(body, [file |-> file_path,
                                             time |-> creation_timestamp,
                                             tag |-> r.content])
                          ELSE body
               /\ io_failed' = IF outcome = "ok"
                               THEN io_failed
                               ELSE io_failed \cup {<<file_path, outcome>>}
    /\ fidx' = fidx + 1
    /\ apc' = IF fidx = Len(tag_files) THEN "send" ELSE "compose"
    /\ UNCHANGED <<pvars, now, rvars, tag_files, ages, emit, attempt, sent, polls,
                   outcomes, delivered>>

\* One pass of `for i in range(5)`: send_outlook_email, break on success,
\* else time.sleep(10*i)
Attempt ==
    /\ apc = "send"
    /\ \E ok \in BOOLEAN :
         /\ sent' = ok
         /\ outcomes' = Append(outcomes, ok)
         /\ delivered' = IF ok
                         THEN delivered \cup {body[k].file : k \in 1..Len(body)}
                         ELSE delivered
         /\ IF loop_breaks(ok)
            THEN /\ apc' = "sleep"
                 /\ UNCHANGED <<now, attempt>>
            ELSE /\ now + backoff(attempt) <= MaxTime
                 /\ now' = now + backoff(attempt)
                 /\ attempt' = attempt + 1
                 /\ apc' = IF attempt + 1 = MAX_ATTEMPTS THEN "sleep" ELSE "send"
    /\ UNCHANGED <<pvars, queue, rvars, tag_files, ages, emit, fidx, body, polls,
                   io_failed>>

\* time.sleep(POLL_INTERVAL_SECONDS) and the next pass of `while True`
Sleep ==
    /\ apc = "sleep"
    /\ now + POLL_INTERVAL_SECONDS <= MaxTime
    /\ now' = now + POLL_INTERVAL_SECONDS
    /\ apc' = "scan"
    /\ AggFresh
    /\ UNCHANGED <<pvars, queue, rvars, polls, delivered>>

\* The Aggregator process is killed in the middle of a pass and started
\* again: what it held in memory (listing, report, attempt count) is gone,
\* the queue is as it was.
AggCrash ==
    /\ apc # "scan"
    /\ apc' = "scan"
    /\ AggFresh
    /\ UNCHANGED <<pvars, now, queue, rvars, polls, delivered>>

AggregatorNext ==
    \/ Scan
    \/ AgeCheck
    \/ ProcessFile
    \/ Attempt
    \/ Sleep
    \/ AggCrash

\* Time passes while both processes wait: the Reader in readline (or gone),
\* the Aggregator between two polls.
Tick ==
    /\ now + TickStep <= MaxTime
    /\ rpc \in {"listen", "dead"}
    /\ apc = "scan"
    /\ now' = now + TickStep
    /\ UNCHANGED <<pvars, queue, rvars, avars>>

\* ------------------------------------------------------------------------
\* Specification
\* ------------------------------------------------------------------------
InitProgram ==
    /\ now = 0
    /\ rpc = "cfg_send"
    /\ cfg_step = 0
    /\ is_open = TRUE
    /\ last_tag = <<>>
    /\ last_read = 0
    /\ matches = <<>>
    /\ idx = 0
    /\ exc = ""
    /\ reads = 0
    /\ audit = <<>>
    /\ queue = {}
    /\ apc = "scan"
    /\ tag_files = <<>>
    /\ ages = <<>>
    /\ emit = FALSE
    /\ fidx = 1
    /\ body = <<>>
    /\ attempt = 0
    /\ sent = FALSE
    /\ polls = 0
    /\ seen = <<>>
    /\ created = <<>>
    /\ last_io = "ok"
    /\ outcomes = <<>>
    /\ io_failed = {}
    /\ delivered = {}
    /\ wire = <<>>

Init ==
    /\ InitProgram
    /\ op = "none"
    /\ arg = <<>>
    /\ res = <<>>
    /\ done = FALSE

\* The whole system: Reader, Aggregator and the clock
Next == Listen(QueueReads) \/ ReaderSteps \/ AggregatorNext \/ Tick

Spec == Init /\ [][Next]_vars

\* The Reader alone, on the richer set of device inputs
NextReader == Listen(RawReads) \/ ReaderSteps

SpecReader == Init /\ [][NextReader]_vars

\* ------------------------------------------------------------------------
\* The decoding functions on their own: one call of one function on one
\* input, the input drawn from the sets below
\* ------------------------------------------------------------------------
\* All sequences over `alphabet` of length 0..n
SeqsUpTo(alphabet, n) == UNION {[1..k -> alphabet] : k \in 0..n}

\* raw_packet values given to unpack_6bit_to_8bit: bytes with and without
\* the two top bits set
CodecBytes == {0, 1, 2, 3, 63, 64, 255}
CodecInputs == SeqsUpTo(CodecBytes, MaxCodecLen)

\* unpacked values given to car_owner and car_number: shorter than, as long
\* as and longer than the bit ranges need
FieldBytes == {0, 1, 170, 255}
FieldInputs == SeqsUpTo(FieldBytes, MaxFieldLen)

\* (bit_array, start_bit, end_bit) given to bits_to_int
BitsInputs ==
    {<<b, s, e>> : b \in SeqsUpTo(BOOLEAN, MaxBits),
                   s \in 0..(MaxBits + 1), e \in 0..(MaxBits + 1)}

\* The concatenation of a sequence of byte strings
RECURSIVE Flatten(_)
Flatten(pieces) ==
    IF pieces = <<>> THEN <<>> ELSE Head(pieces) \o Flatten(Tail(pieces))

\* received_data values given to findall: any arrangement of start markers,
\* end markers, data bytes and the two halves of a start marker
BufferPieces == {START_MARKER, <<END_MARKER>>, <<1>>, <<250>>, <<0, 7>>}
BufferInputs == {Flatten(t) : t \in SeqsUpTo(BufferPieces, MaxPieces)}

DecodeOps == {"unpack_6bit_to_8bit", "process_bytes", "car_number",
              "car_owner", "bits_to_int", "findall"}

DecodeArgs(o) ==
    CASE o = "unpack_6bit_to_8bit" -> CodecInputs
      [] o = "process_bytes" -> CodecInputs
      [] o = "car_number" -> FieldInputs
      [] o = "car_owner" -> FieldInputs
      [] o = "bits_to_int" -> BitsInputs
      [] o = "findall" -> BufferInputs

InitDecode ==
    /\ InitProgram
    /\ \E o \in DecodeOps : op = o /\ arg \in DecodeArgs(o)
    /\ res = <<>>
    /\ done = FALSE

\* unpacked = unpack_6bit_to_8bit(raw_packet)
ApplyUnpack ==
    /\ op = "unpack_6bit_to_8bit" /\ ~done
    /\ res' = unpack_6bit_to_8bit(arg)
    /\ done' = TRUE
    /\ UNCHANGED <<op, arg, now, queue, rvars, avars>>

\* process_bytes(input_bytes)
ApplyProcessBytes ==
    /\ op = "process_bytes" /\ ~done
    /\ res' = process_bytes(arg)
    /\ done' = TRUE
    /\ UNCHANGED <<op, arg, now, queue, rvars, avars>>

\* number = car_number(unpacked)
ApplyCarNumber ==
    /\ op = "car_number" /\ ~done
    /\ res' = car_number(arg)
    /\ done' = TRUE
    /\ UNCHANGED <<op, arg, now, queue, rvars, avars>>

\* owner = car_owner(unpacked)
ApplyCarOwner ==
    /\ op = "car_owner" /\ ~done
    /\ res' = car_owner(arg)
    /\ done' = TRUE
    /\ UNCHANGED <<op, arg, now, queue, rvars, avars>>

\* bits_to_int(bit_array, call_start_bit, call_end_bit)
ApplyBitsToInt ==
    /\ op = "bits_to_int" /\ ~done
    /\ res' = bits_to_int(arg[1], arg[2], arg[3])
    /\ done' = TRUE
    /\ UNCHANGED <<op, arg, now, queue, rvars, avars>>

\* matches = pattern.findall(received_data)
ApplyFindall ==
    /\ op = "findall" /\ ~done
    /\ res' = findall(arg, 1)
    /\ done' = TRUE
    /\ UNCHANGED <<op, arg, now, queue, rvars, avars>>

NextDecode ==
    \/ ApplyUnpack
    \/ ApplyProcessBytes
    \/ ApplyCarNumber
    \/ ApplyCarOwner
    \/ ApplyBitsToInt
    \/ ApplyFindall

SpecDecode == InitDecode /\ [][NextDecode]_vars

\* ------------------------------------------------------------------------
\* Definitions used to state the properties
\* ------------------------------------------------------------------------
\* A sequence without its adjacent repetitions.
RECURSIVE Dedup(_)
Dedup(tags) ==
    IF Len(tags) <= 1 THEN tags
    ELSE LET front == SubSeq(tags, 1, Len(tags) - 1)
         IN IF tags[Len(tags)] = tags[Len(tags) - 1]
            THEN Dedup(front)
            ELSE Append(Dedup(front), tags[Len(tags)])

Front(q) == SubSeq(q, 1, Len(q) - 1)

CreatedTags == [j \in 1..Len(created) |-> created[j].tag]

CreatedNames == {created[j].name : j \in 1..Len(created)}

AuditTags == [j \in 1..Len(audit) |-> audit[j][2]]

\* The decoded tags whose handling is over: the last one is still being
\* handled while its file is about to be opened, and was given up if the
\* Reader died on a file error.
Handled ==
    IF rpc = "open" \/ exc \in {"OSError_log", "OSError_tag"}
    THEN Front(seen) ELSE seen

Listed == {tag_files[k] : k \in 1..Len(tag_files)}

\* The Aggregator has gone through a flush and reached its end.
CycleOver == apc = "sleep" /\ emit

\* Attempts fail until one succeeds, and none follows a success.
FailsThenSucceeds ==
    /\ Len(outcomes) <= MAX_ATTEMPTS
    /\ \A k \in 1..Len(outcomes) : outcomes[k] => k = Len(outcomes)
    /\ (apc = "send" /\ outcomes # <<>>) => ~outcomes[Len(outcomes)]

TagA == format_tag(PAYLOAD_A)
TagB == format_tag(PAYLOAD_B)

\* ------------------------------------------------------------------------
\* C1. Between two passes of the Aggregator (after a flush, or after a
\* crash and restart), every entry the Reader ever created is still in the
\* queue or was listed in a report whose delivery succeeded.
\* ------------------------------------------------------------------------
C1_NoEntryLost ==
    apc \in {"scan", "sleep"} =>
        \A n \in CreatedNames : n \in FileNames(queue) \/ n \in delivered

\* ------------------------------------------------------------------------
\* C2. When every delivery attempt of a cycle has failed, there were exactly
\* 5 attempts and every entry of the batch is still in the queue.
\* ------------------------------------------------------------------------
C2_AllFailKeepsBatch ==
    (CycleOver /\ ~sent) =>
        /\ Len(outcomes) = MAX_ATTEMPTS
        /\ \A n \in Listed : n \in FileNames(queue)

\* ------------------------------------------------------------------------
\* C3. The Aggregator flushes at a poll only if every entry listed in that
\* poll has reached the age threshold: one younger entry holds back the
\* batch, wherever it stands in the listing.  (The code's test is `< 300`,
\* so an age of exactly 300 counts as aged; the statement is taken with
\* that boundary, which is the weaker reading.)
\* ------------------------------------------------------------------------
C3_FlushOnlyIfAllAged ==
    emit => \A k \in 1..Len(ages) : ages[k] >= AGE_THRESHOLD

\* ------------------------------------------------------------------------
\* C4. The queue entries created are, in order, the decoded tags handled by
\* the Reader with adjacent repetitions removed: one entry for each tag that
\* differs from the one before it, none for a tag equal to it; and no two
\* entries share a file name.
\* ------------------------------------------------------------------------
C4_OneEntryPerChange ==
    /\ CreatedTags = Dedup(Handled)
    /\ \A a, b \in 1..Len(created) : created[a].name = created[b].name => a = b

\* The tags A, B, A were handled and gave three entries.
C4_Witness ==
    /\ seen = <<TagA, TagB, TagA>>
    /\ CreatedTags = <<TagA, TagB, TagA>>
    /\ rpc = "listen"

\* ------------------------------------------------------------------------
\* C5 as stated. Attempts fail until one succeeds and none follows it, and
\* when a cycle ends with a success every entry of the batch is out of the
\* queue.
\* ------------------------------------------------------------------------
C5_SuccessDeletesBatch ==
    /\ FailsThenSucceeds
    /\ (CycleOver /\ sent) => \A n \in Listed : n \notin FileNames(queue)

\* C5 as amended. Attempts fail until one succeeds and none follows it, and
\* when a cycle ends with a success the entries of the batch left in the
\* queue are exactly those whose read or removal failed.
C5_SuccessDeletesBatchButFaults ==
    /\ FailsThenSucceeds
    /\ (CycleOver /\ sent) =>
          \A n \in Listed :
              n \in FileNames(queue) <=> \E f \in io_failed : f[1] = n

\* Delivery succeeded at the fourth attempt and the batch is gone.
C5_Witness ==
    /\ CycleOver
    /\ outcomes = <<FALSE, FALSE, FALSE, TRUE>>
    /\ Listed # {}
    /\ io_failed = {}
    /\ Listed \cap FileNames(queue) = {}

\* ------------------------------------------------------------------------
\* C6. The listing of a poll never holds the entry the Reader has opened
\* and not yet written.
\* ------------------------------------------------------------------------
C6_NeverListsPartial ==
    rpc = "write" => tag_path(last_read, idx) \notin Listed

C8_DeviceBytesNeverFatal ==
    rpc = "dead" => exc \in {"SerialException", "OSError_log", "OSError_tag"}

\* ------------------------------------------------------------------------
\* C9. A queue I/O fault ends neither process: the Reader is never ended by
\* a failure to create an entry, and an entry whose removal failed is still
\* in the queue.
\* ------------------------------------------------------------------------
C9_QueueFaultNeverFatal ==
    /\ exc # "OSError_tag"
    /\ \A f \in io_failed : f[2] = "delete_error" => f[1] \in FileNames(queue)

C11_ReportSortedByTime ==
    (\A k \in 1..Len(ages) : ages[k] >= AGE_THRESHOLD) =>
        \A a, b \in 1..Len(body) : a < b => body[a].time <= body[b].time

\* ------------------------------------------------------------------------
\* C12 as stated. The unit number decoded from any unpacked byte sequence
\* fits in 19 bits: it lies in 0..524287.
\* ------------------------------------------------------------------------
C12_UnitNumberFits19Bits ==
    (op = "car_number" /\ done) => res \in 0..524287

\* C12 as amended. The unit number decoded from any unpacked byte sequence
\* (bits 26 to 45 inclusive, 20 bits) fits in 20 bits: it lies in 0..1048575.
C12_UnitNumberFits20Bits ==
    (op = "car_number" /\ done) => res \in 0..(Pow2(20) - 1)

\* A sequence with bits 26 to 45 all set decoded to the largest 20-bit value.
C12_Witness ==
    /\ op = "car_number" /\ done
    /\ Len(arg) = 6
    /\ res = Pow2(20) - 1

\* ------------------------------------------------------------------------
\* C13 as stated. unpack_6bit_to_8bit applied to the 3 bytes 0x01 0x02 0x03
\* returns the 2 bytes 0x04 0x30.
\* ------------------------------------------------------------------------
C13_KnownVectorAsStated ==
    (op = "unpack_6bit_to_8bit" /\ done /\ arg = <<1, 2, 3>>) =>
        res = <<4, 48>>

\* C13 as amended. unpack_6bit_to_8bit applied to the 3 bytes 0x01 0x02 0x03
\* (bit stream 000001 000010 000011) returns the 2 bytes 0x04 0x20, the 2
\* trailing bits being dropped.
C13_KnownVector ==
    (op = "unpack_6bit_to_8bit" /\ done /\ arg = <<1, 2, 3>>) =>
        res = <<4, 32>>

\* The known input has been unpacked.
C13_Witness ==
    /\ op = "unpack_6bit_to_8bit" /\ done
    /\ arg = <<1, 2, 3>>
    /\ Len(res) = 2

\* ------------------------------------------------------------------------
\* The bit stream of the codec's contract: the low 6 bits of each input
\* byte, most significant first, one after the other.
SixBitStream(input_bytes) ==
    [p \in 1..(6 * Len(input_bytes)) |->
        ((input_bytes[((p - 1) \div 6) + 1] % 64) \div Pow2(5 - ((p - 1) % 6))) % 2]

\* Byte j of a bit stream cut into groups of 8, most significant bit first.
StreamByte(stream, j) ==
    LET bit(i) == stream[8 * (j - 1) + i]
    IN 128 * bit(1) + 64 * bit(2) + 32 * bit(3) + 16 * bit(4)
       + 8 * bit(5) + 4 * bit(6) + 2 * bit(7) + bit(8)

\* The whole groups of 8 of the stream; the bits left over are dropped.
Regrouped(input_bytes) ==
    [j \in 1..((6 * Len(input_bytes)) \div 8) |->
        StreamByte(SixBitStream(input_bytes), j)]

\* C14. For every input, of any length and with any byte values, the output
\* of the 6-to-8-bit unpacker (either of the two in the file) has length
\* floor(len(input) * 6 / 8) and is the MSB-first stream of the low 6 bits of
\* each byte cut into groups of 8, the incomplete last group dropped.
\* ------------------------------------------------------------------------
C14_CodecLengthAndContent ==
    (op \in {"unpack_6bit_to_8bit", "process_bytes"} /\ done) =>
        /\ Len(res) = (Len(arg) * 6) \div 8
        /\ res = Regrouped(arg)

\* Four bytes, some with the top two bits set, unpacked to three.
C14_Witness ==
    /\ op = "unpack_6bit_to_8bit" /\ done
    /\ arg = <<255, 64, 3, 255>>
    /\ res = <<252, 0, 255>>

\* ------------------------------------------------------------------------
\* The letters of the owner mark, by position in the alphabet (1..26).
Letters == <<"A", "B", "C", "D", "E", "F", "G", "H", "I", "J", "K", "L", "M",
             "N", "O", "P", "Q", "R", "S", "T", "U", "V", "W", "X", "Y", "Z">>

\* The digits d re-encode to V, and the last three are base-27 digits.
DigitsOf(d, V) ==
    /\ d[1] * 19683 + d[2] * 729 + d[3] * 27 + d[4] = V
    /\ d[1] >= 0
    /\ \A k \in 2..4 : d[k] \in 0..26

\* The character of the first digit: A=0..Z=25, else the sentinel.
FirstChar(n) == IF n \in 0..25 THEN Letters[n + 1] ELSE "?"

\* The character of a later digit: blank=0, A=1..Z=26, else the sentinel.
LaterChar(n) == IF n = 0 THEN " " ELSE IF n \in 1..26 THEN Letters[n] ELSE "?"

\* C15. For every owner value V the decoder can extract (19 bits), the
\* digits (n1, n2, n3, n4) it computes re-encode to V with n2, n3, n4 in
\* 0..26; the first character is A..Z for n1 = 0..25, the others blank for 0
\* and A..Z for 1..26, the sentinel '?' standing only for a digit outside
\* its range; V = 0 gives 'A' and three blanks.
\* ------------------------------------------------------------------------
C15_Base27RoundTrip ==
    (op = "car_owner" /\ done) =>
        LET V == owner_value(arg)
            d == owner_digits(V)
        IN /\ V \in 0..(Pow2(19) - 1)
           /\ DigitsOf(d, V)
           /\ res = <<FirstChar(d[1]), LaterChar(d[2]), LaterChar(d[3]),
                      LaterChar(d[4])>>
           /\ \A k \in 2..4 : res[k] # "?"
           /\ (res[1] = "?") <=> (d[1] = 26)
           /\ (V = 0) => res = <<"A", " ", " ", " ">>
           /\ (arg = <<>>) =>
                 \A W \in 0..(Pow2(19) - 1) : DigitsOf(owner_digits(W), W)

\* The largest owner value, whose first digit 26 is out of range, decoded to
\* the sentinel followed by three letters.
C15_Witness ==
    /\ op = "car_owner" /\ done
    /\ owner_value(arg) = Pow2(19) - 1
    /\ res[1] = "?"
    /\ res[2] # " "

\* ------------------------------------------------------------------------
\* The bits k..(e-1) (0-based) of a bit array read as a big-endian unsigned
\* integer, bit k the most significant.
RECURSIVE BigEndian(_, _, _)
BigEndian(bit_array, k, e) ==
    IF e <= k THEN 0
    ELSE 2 * BigEndian(bit_array, k, e - 1) + (IF bit_array[e] THEN 1 ELSE 0)

\* C16. bits_to_int, for bit positions that are natural numbers, never
\* reads outside the bit array (so it never raises): it returns 0 when the
\* range is empty or runs past the end of the array, 0 over an all-zero
\* array, and otherwise the selected bits as a big-endian unsigned integer,
\* bit 0 of the array being the most significant bit of the first byte.
\* ------------------------------------------------------------------------
C16_ExtractBitsTolerant ==
    /\ (op = "bits_to_int" /\ done) =>
          LET bit_array == arg[1]
              start_bit == arg[2]
              end_bit == arg[3]
          IN /\ bits_read(bit_array, start_bit, end_bit) \subseteq
                   0..(Len(bit_array) - 1)
             /\ (start_bit >= end_bit \/ end_bit > Len(bit_array)) => res = 0
             /\ (\A k \in 1..Len(bit_array) : ~bit_array[k]) => res = 0
             /\ (start_bit < end_bit /\ end_bit <= Len(bit_array)) =>
                   res = BigEndian(bit_array, start_bit, end_bit)
    /\ (op = "car_number" /\ done /\ Len(arg) > 0) =>
          BigEndian(to_bit_array(arg), 0, 8) = arg[1]

\* Bits 1 and 2 of the array 0110 were read as the value 3.
C16_Witness ==
    /\ op = "bits_to_int" /\ done
    /\ arg = <<<<FALSE, TRUE, TRUE, FALSE>>, 1, 3>>
    /\ res = 3

\* ------------------------------------------------------------------------
\* The positions from `from` on where a start marker stands that has an end
\* marker somewhere after it.
FrameStarts(buf, from) ==
    {p \in from..(Len(buf) - 3) :
        /\ SubSeq(buf, p, p + 2) = <<250, 0, 7>>
        /\ \E e \in (p + 3)..Len(buf) : buf[e] = 245}

Least(S) == CHOOSE x \in S : \A y \in S : x <= y

\* The payloads between each start marker and the next end marker, in order
\* of occurrence, a frame starting only after the one before it has ended.
RECURSIVE FramesOf(_, _)
FramesOf(buf, from) ==
    IF FrameStarts(buf, from) = {}
    THEN <<>>
    ELSE LET p == Least(FrameStarts(buf, from))
             e == Least({x \in (p + 3)..Len(buf) : buf[x] = 245})
         IN <<SubSeq(buf, p + 3, e - 1)>> \o FramesOf(buf, e + 1)

\* C17. For every read buffer, findall yields, in order and without overlap,
\* exactly the payloads between a start marker fa 00 07 and the next end
\* marker f5: bytes may follow the end marker, every frame of the buffer is
\* yielded, and a start marker with no end marker after it yields nothing.
\* ------------------------------------------------------------------------
C17_FramesBetweenMarkers ==
    (op = "findall" /\ done) =>
        /\ res = FramesOf(arg, 1)
        /\ (\A e \in 1..Len(arg) : arg[e] # 245) => res = <<>>

\* Two frames in one buffer, bytes after the first end marker: both yielded.
C17_Witness ==
    /\ op = "findall" /\ done
    /\ arg = <<250, 0, 7, 1, 245, 250, 0, 7, 1, 245>>
    /\ res = <<<<1>>, <<1>>>>

\* ------------------------------------------------------------------------
\* The files the compose loop has gone through: those with a row in the
\* report and those whose read failed.
Composed ==
    {body[k].file : k \in 1..Len(body)}
        \cup {f[1] : f \in {g \in io_failed : g[2] = "read_error"}}

AllAged == \A k \in 1..Len(ages) : ages[k] > AGE_THRESHOLD

\* C18. At a poll where every listed entry is older than 300 seconds the
\* Aggregator flushes, and what it flushes is the whole listing: once the
\* report is composed, every listed entry has gone through the compose loop
\* (a row in the report, unless its read failed), never an aged part only.
\* ------------------------------------------------------------------------
C18_AllAgedFlushesAll ==
    /\ (apc \in {"compose", "send", "sleep"} /\ tag_files # <<>> /\ AllAged)
          => emit
    /\ apc = "compose" => Composed = {tag_files[k] : k \in 1..(fidx - 1)}
    /\ (apc = "send" \/ CycleOver) => Composed = Listed

\* Two entries, both older than 300 seconds, were listed and both are rows
\* of the report handed to delivery.
C18_Witness ==
    /\ apc = "send"
    /\ Len(tag_files) = 2
    /\ AllAged
    /\ Len(body) = 2

\* ------------------------------------------------------------------------
\* C19. In a cycle the Notifier makes at most 5 delivery attempts; it waits
\* only between two attempts, 10 seconds times the index of the failed
\* attempt (counted from 0, as the code counts), and not at all after the
\* attempt that ends the cycle, be it a success or the fifth failure.
\* ------------------------------------------------------------------------
C19_WaitsOnlyBetweenAttempts ==
    [][(apc = "send" /\ outcomes' # outcomes) =>
          /\ Len(outcomes') <= MAX_ATTEMPTS
          /\ apc' = "send" => now' - now = BACKOFF_UNIT * (Len(outcomes') - 1)
          /\ apc' = "sleep" => now' = now]_vars

\* ------------------------------------------------------------------------
\* The reads of the read loop among the Reader's serial calls.
Readlines == {"readline_data", "readline_empty", "readline_error"}

\* C20. The Reader sends the status query only right after a readline that
\* returned no byte, and sends it after every such read, once; after a
\* readline that returned bytes its next serial call is the next readline;
\* and it is never back in readline after an empty read without having sent
\* the query.
\* ------------------------------------------------------------------------
C20_StatusOnlyAfterEmptyRead ==
    /\ \A k \in 1..Len(wire) :
          wire[k] = "status" => (k > 1 /\ wire[k - 1] = "readline_empty")
    /\ \A k \in 1..(Len(wire) - 1) :
          /\ wire[k] = "readline_empty" => wire[k + 1] = "status"
          /\ wire[k] = "readline_data" => wire[k + 1] \in Readlines
    /\ (rpc = "listen" /\ wire # <<>>) => wire[Len(wire)] # "readline_empty"

\* An empty read was followed by one status query and its answer, and the
\* read after it, which returned a frame, by none.
C20_Witness ==
    /\ Len(wire) = 12
    /\ SubSeq(wire, 9, 12) =
          <<"readline_empty", "status", "read_all", "readline_data">>
    /\ rpc = "listen"

\* ------------------------------------------------------------------------
\* The serial calls of the configuration, as the session is to make them.
\* A send is the call that writes the frame, whatever the write returns.
ConfigCalls == <<"rf_off", "read_all", "mode_serial", "read_all",
                 "power_100", "read_all", "rf_on", "read_all">>

IsPrefix(a, b) == Len(a) <= Len(b) /\ a = SubSeq(b, 1, Len(a))

\* C21. The Reader's serial calls begin with the four sends RF-off,
\* mode-select, power-level, RF-on in that order, each followed by a drain
\* of the response: no readline comes before the drain after RF-on, none of
\* the four is sent again later, and whatever the device answers the Reader
\* goes on to the read loop; only a drain that raises stops it before.
\* ------------------------------------------------------------------------
C21_ConfigBeforeListening ==
    /\ IsPrefix(wire, ConfigCalls) \/ IsPrefix(ConfigCalls, wire)
    /\ \A k \in 1..Len(wire) :
          (wire[k] \in Readlines \/ wire[k] = "status") => k > Len(ConfigCalls)
    /\ \A k \in (Len(ConfigCalls) + 1)..Len(wire) :
          wire[k] \notin {"rf_off", "mode_serial", "power_100", "rf_on"}
    /\ rpc \in {"cfg_send", "cfg_drain"} <=>
          (Len(wire) < Len(ConfigCalls) /\ rpc # "dead")
    /\ (rpc = "dead" /\ Len(wire) <= Len(ConfigCalls)) =>
          (exc = "SerialException" /\ last_io = "read_error")

\* The configuration was gone through and the first readline made.
C21_Witness ==
    /\ Len(wire) = Len(ConfigCalls) + 1
    /\ SubSeq(wire, 1, Len(ConfigCalls)) = ConfigCalls
    /\ wire[Len(wire)] = "readline_data"
    /\ rpc = "tag"

\* ------------------------------------------------------------------------
\* The entries in the queue that the listing of the current cycle does not
\* hold: glob lists every file there is, so during a cycle these are the
\* entries the Reader created after the listing.
Unlisted == {f \in queue : f.name \notin Listed}

\* C22. An entry the Reader creates after the Aggregator has listed the
\* queue is left alone by that cycle: every step leaves it in the queue as
\* it is (but for the Reader's own write, which completes the entry it has
\* just opened), the report of the cycle has no row for it, and so it is
\* still in the queue when the cycle is over.
\* ------------------------------------------------------------------------
C22_LateEntryUntouched ==
    [][/\ \A f \in Unlisted :
             \/ f \in queue'
             \/ /\ rpc = "write" /\ f.content = <<>>
                /\ \E g \in queue' : g.name = f.name /\ g.content # <<>>
       /\ \A k \in 1..Len(body') : body'[k].file \in Listed]_vars

\* A cycle has flushed and delivered its listing while the Reader created
\* another entry, which is in the queue, whole, after the cycle.
C22_Witness ==
    /\ CycleOver /\ sent
    /\ Listed # {}
    /\ Listed \cap FileNames(queue) = {}
    /\ \E f \in Unlisted : f.content # <<>> /\ f.ctime > now - AGE_THRESHOLD

=============================================================================
